---- MODULE Spec2Model ----
(***************************************************************************)
(* stock-monitor: a command-line portfolio tracker.  Two versions of the   *)
(* program are modelled side by side: src/index.js (TuShare client,        *)
(* version "index") and src/unnamed/part_002 (Tencent client, version      *)
(* "part002").  The variable `version` fixes which one a behaviour runs.   *)
(*                                                                         *)
(* Strings are sequences of one-character strings so that includes,        *)
(* startsWith, split and toLowerCase can be computed.  JavaScript numbers  *)
(* are records: exact rationals n/d, or NaN, +Infinity, -Infinity; `null`  *)
(* is the JSON null a number slot can hold after a reload.  Signed zeros   *)
(* and binary rounding are not modelled.                                   *)
(***************************************************************************)
EXTENDS Integers, Sequences, FiniteSets, TLC

VARIABLES
    version,        \* "index" or "part002"
    portfolio,      \* this.portfolio of the most recent process
    portfolioFile,  \* portfolio.json: [exists, data]
    config,         \* this.config
    configFile,     \* config.json: [exists, data]
    ops,            \* number of commands executed so far (bounded)
    last,           \* record of the last command executed
    prev,           \* record of the command executed before `last`
    mon,            \* monitor mode: control state of startMonitoring
    now,            \* monitor mode: Date.now() in units of TimeUnit ms
    lastUpdateTime, \* monitor mode: closure variable of startMonitoring
    passes,         \* monitor mode: valuation passes in flight
    fmtIn           \* formatter specification: the call under test

vars == <<version, portfolio, portfolioFile, config, configFile,
          ops, last, prev, mon, now, lastUpdateTime, passes, fmtIn>>

cliVars == <<portfolio, portfolioFile, config, configFile, ops, last, prev>>
monVars == <<mon, now, lastUpdateTime, passes>>

Versions == {"index", "part002"}

-----------------------------------------------------------------------------
(* Bounds *)

MaxOps == 3
MaxAdds == 2
MaxTime == 3000
MaxPasses == 3
TimeStep == 500

-----------------------------------------------------------------------------
(* Strings *)

Str600000   == <<"6","0","0","0","0","0">>
Str000001   == <<"0","0","0","0","0","1">>
Str900001   == <<"9","0","0","0","0","1">>
DotSH       == <<".","S","H">>
Dotsh       == <<".","s","h">>
DotSZ       == <<".","S","Z">>
Dotsz       == <<".","s","z">>
Prefsh      == <<"s","h">>
Prefsz      == <<"s","z">>
EmptyStr    == <<>>
NamePF      == <<"P","F">>

includes(s, c) == \E i \in 1..Len(s) : s[i] = c

startsWith(s, c) == Len(s) >= 1 /\ s[1] = c

indexOf(s, c) == IF includes(s, c)
                 THEN CHOOSE i \in 1..Len(s) : s[i] = c /\ \A j \in 1..(i-1) : s[j] # c
                 ELSE 0

\* String.prototype.split(".") restricted to its first two parts, which is
\* all the destructuring `[code, market]` reads.
splitCode(s) == SubSeq(s, 1, indexOf(s, ".") - 1)

splitMarket(s) ==
    LET rest == SubSeq(s, indexOf(s, ".") + 1, Len(s))
    IN  IF includes(rest, ".") THEN SubSeq(rest, 1, indexOf(rest, ".") - 1) ELSE rest

lowerChar(c) ==
    CASE c = "S" -> "s"
      [] c = "H" -> "h"
      [] c = "Z" -> "z"
      [] c = "P" -> "p"
      [] c = "F" -> "f"
      [] OTHER   -> c

toLowerCase(s) == [i \in 1..Len(s) |-> lowerChar(s[i])]

-----------------------------------------------------------------------------
(* Symbol formatter *)

\* src/index.js: TuShare form, 600000 -> 600000.SH
IndexFormatStockCode(symbol) ==
    IF includes(symbol, ".") THEN symbol
    ELSE IF startsWith(symbol, "6") THEN symbol \o DotSH
    ELSE IF startsWith(symbol, "0") \/ startsWith(symbol, "3") THEN symbol \o DotSZ
    ELSE symbol

\* src/unnamed/part_002: Tencent form, 600000 -> sh600000
Part002FormatStockCode(symbol) ==
    IF includes(symbol, ".") THEN toLowerCase(splitMarket(symbol)) \o splitCode(symbol)
    ELSE IF startsWith(symbol, "6") THEN Prefsh \o symbol
    ELSE IF startsWith(symbol, "0") \/ startsWith(symbol, "3") THEN Prefsz \o symbol
    ELSE symbol

formatStockCodeOf(v, symbol) ==
    IF v = "index" THEN IndexFormatStockCode(symbol) ELSE Part002FormatStockCode(symbol)

formatStockCode(symbol) == formatStockCodeOf(version, symbol)

-----------------------------------------------------------------------------
(* JavaScript numbers *)

RECURSIVE GCD(_, _)
GCD(a, b) == IF b = 0 THEN a ELSE GCD(b, a % b)

Abs(i) == IF i < 0 THEN -i ELSE i

\* The rational n/d (d # 0) in lowest terms with a positive denominator.
Fin(n, d) ==
    LET g == GCD(Abs(n), Abs(d))
        s == IF d < 0 THEN -1 ELSE 1
    IN  [k |-> "fin", n |-> (s * n) \div g, d |-> Abs(d) \div g]

Int2Num(i) == Fin(i, 1)
NaN     == [k |-> "nan",  n |-> 0, d |-> 1]
PInf    == [k |-> "pinf", n |-> 0, d |-> 1]
NInf    == [k |-> "ninf", n |-> 0, d |-> 1]
Null    == [k |-> "null", n |-> 0, d |-> 1]
Undef   == [k |-> "undef", n |-> 0, d |-> 1]

\* ToNumber: null coerces to 0 and undefined to NaN in arithmetic.
ToNumber(x) == IF x.k = "null" THEN Int2Num(0) ELSE IF x.k = "undef" THEN NaN ELSE x

Sign(x) ==
    CASE x.k = "pinf" -> 1
      [] x.k = "ninf" -> -1
      [] x.k = "fin"  -> (IF x.n > 0 THEN 1 ELSE IF x.n < 0 THEN -1 ELSE 0)
      [] OTHER        -> 0

InfOfSign(s) == IF s = 0 THEN NaN ELSE IF s > 0 THEN PInf ELSE NInf

Mul(a0, b0) ==
    LET a == ToNumber(a0)
        b == ToNumber(b0)
    IN  IF a.k = "nan" \/ b.k = "nan" THEN NaN
        ELSE IF a.k = "fin" /\ b.k = "fin" THEN Fin(a.n * b.n, a.d * b.d)
        ELSE InfOfSign(Sign(a) * Sign(b))

Neg(a0) ==
    LET a == ToNumber(a0)
    IN  CASE a.k = "fin"  -> Fin(-a.n, a.d)
          [] a.k = "pinf" -> NInf
          [] a.k = "ninf" -> PInf
          [] OTHER        -> NaN

Add(a0, b0) ==
    LET a == ToNumber(a0)
        b == ToNumber(b0)
    IN  IF a.k = "nan" \/ b.k = "nan" THEN NaN
        ELSE IF a.k = "fin" /\ b.k = "fin" THEN Fin(a.n * b.d + b.n * a.d, a.d * b.d)
        ELSE IF a.k = "fin" THEN b
        ELSE IF b.k = "fin" THEN a
        ELSE IF a.k = b.k THEN a
        ELSE NaN

Sub(a, b) == Add(a, Neg(b))

Div(a0, b0) ==
    LET a == ToNumber(a0)
        b == ToNumber(b0)
    IN  IF a.k = "nan" \/ b.k = "nan" THEN NaN
        ELSE IF a.k = "fin" /\ b.k = "fin"
             THEN IF b.n = 0 THEN InfOfSign(Sign(a)) ELSE Fin(a.n * b.d, a.d * b.n)
        ELSE IF a.k = "fin" THEN Int2Num(0)
        ELSE IF b.k = "fin" THEN InfOfSign(Sign(a) * (IF b.n < 0 THEN -1 ELSE 1))
        ELSE NaN

-----------------------------------------------------------------------------
(* Persistence: JSON.stringify / JSON.parse and the two files *)

\* JSON has no NaN or Infinity: JSON.stringify writes them as null.
jsonNumber(x) == IF x.k = "fin" THEN x ELSE Null

jsonPosition(p) ==
    [p EXCEPT !.shares = jsonNumber(p.shares),
              !.purchasePrice = jsonNumber(p.purchasePrice)]

\* The document JSON.stringify(this.portfolio, null, 2) writes.
JSONstringify(pf) == [i \in 1..Len(pf) |-> jsonPosition(pf[i])]

\* JSON.parse of a document written by JSONstringify: the value it denotes.
JSONparse(doc) == doc

savePortfolio(pf) == [exists |-> TRUE, data |-> JSONstringify(pf)]

\* loadPortfolio: the portfolio held afterwards, and the file afterwards
\* (a missing file is replaced by an empty portfolio, which is saved).
loadPortfolio(file) ==
    IF file.exists
    THEN [portfolio |-> JSONparse(file.data), file |-> file]
    ELSE [portfolio |-> <<>>, file |-> savePortfolio(<<>>)]

saveConfig(cfg) == [exists |-> TRUE, data |-> cfg]

loadConfig(file) ==
    IF file.exists
    THEN [config |-> file.data, file |-> file]
    ELSE [config |-> [apiKey |-> ""], file |-> saveConfig([apiKey |-> ""])]

-----------------------------------------------------------------------------
(* Portfolio engine *)

\* Array.prototype.find by symbol: index of the first match, 0 if none.
findSymbol(pf, sym) ==
    IF \E i \in 1..Len(pf) : pf[i].symbol = sym
    THEN CHOOSE i \in 1..Len(pf) :
            pf[i].symbol = sym /\ \A j \in 1..(i-1) : pf[j].symbol # sym
    ELSE 0

\* A merge that overwrites shares and price instead of averaging.
mergePositionOverwrite(existing, shares, purchasePrice, name) ==
    [existing EXCEPT !.shares = shares, !.purchasePrice = purchasePrice,
                     !.dateModified = "ts"]

\* The merge branch of addPosition: weighted-average purchase price.
mergePosition(existing, shares, purchasePrice, name) ==
    LET totalOldCost == Mul(existing.shares, existing.purchasePrice)
        totalNewCost == Mul(shares, purchasePrice)
        totalShares  == Add(existing.shares, shares)
        averagePrice == Div(Add(totalOldCost, totalNewCost), totalShares)
    IN  [existing EXCEPT !.shares = totalShares,
                         !.purchasePrice = averagePrice,
                         !.dateModified = "ts",
                         !.name = IF name # EmptyStr THEN name ELSE @]

newPosition(formattedSymbol, shares, purchasePrice, name) ==
    [symbol |-> formattedSymbol, name |-> name, shares |-> shares,
     purchasePrice |-> purchasePrice, dateAdded |-> "ts", dateModified |-> "absent"]

\* An addPosition that never looks for an existing position.
addPositionAlwaysPush(pf, formattedSymbol, shares, purchasePrice, name) ==
    Append(pf, newPosition(formattedSymbol, shares, purchasePrice, name))

\* The portfolio after the if/else of addPosition.
addPositionPortfolio(pf, formattedSymbol, shares, purchasePrice, name) ==
    LET i == findSymbol(pf, formattedSymbol)
    IN  IF i # 0
        THEN [pf EXCEPT ![i] = mergePosition(pf[i], shares, purchasePrice, name)]
        ELSE Append(pf, newPosition(formattedSymbol, shares, purchasePrice, name))

\* src/index.js: `position` is a const of the else block, so the return
\* statement's `existingPosition || position` raises a ReferenceError
\* whenever existingPosition is undefined, after savePortfolio has finished.
IndexAddPosition(pf, symbol, shares, purchasePrice, name) ==
    LET formattedSymbol == IndexFormatStockCode(symbol)
        i   == findSymbol(pf, formattedSymbol)
        pf2 == addPositionPortfolio(pf, formattedSymbol, shares, purchasePrice, name)
    IN  [portfolio |-> pf2, saved |-> TRUE,
         threw |-> (i = 0),
         ret |-> IF i # 0 THEN <<pf2[i]>> ELSE <<>>,
         out |-> {}]

\* src/unnamed/part_002: `position` is declared with let before the if.
Part002AddPosition(pf, symbol, shares, purchasePrice, name) ==
    LET formattedSymbol == Part002FormatStockCode(symbol)
        i   == findSymbol(pf, formattedSymbol)
        pf2 == addPositionPortfolio(pf, formattedSymbol, shares, purchasePrice, name)
    IN  [portfolio |-> pf2, saved |-> TRUE,
         threw |-> FALSE,
         ret |-> IF i # 0 THEN <<pf2[i]>> ELSE <<pf2[Len(pf2)]>>,
         out |-> {}]

addPosition(pf, symbol, shares, purchasePrice, name) ==
    IF version = "index"
    THEN IndexAddPosition(pf, symbol, shares, purchasePrice, name)
    ELSE Part002AddPosition(pf, symbol, shares, purchasePrice, name)

\* Array.prototype.filter((p) => p.symbol !== formattedSymbol)
RECURSIVE filterOut(_, _)
filterOut(pf, sym) ==
    IF pf = <<>> THEN <<>>
    ELSE IF Head(pf).symbol # sym
         THEN <<Head(pf)>> \o filterOut(Tail(pf), sym)
         ELSE filterOut(Tail(pf), sym)

IndexRemovePosition(pf, symbol) ==
    [portfolio |-> filterOut(pf, IndexFormatStockCode(symbol)),
     saved |-> TRUE, threw |-> FALSE, ret |-> <<>>, out |-> {}]

\* part_002 first looks the argument up unformatted, by name or by symbol.
Part002RemovePosition(pf, symbol) ==
    IF ~ \E i \in 1..Len(pf) : pf[i].name = symbol \/ pf[i].symbol = symbol
    THEN [portfolio |-> pf, saved |-> FALSE, threw |-> FALSE, ret |-> <<>>,
          out |-> {"Position not found"}]
    ELSE [portfolio |-> filterOut(pf, Part002FormatStockCode(symbol)),
          saved |-> TRUE, threw |-> FALSE, ret |-> <<>>, out |-> {}]

removePosition(pf, symbol) ==
    IF version = "index" THEN IndexRemovePosition(pf, symbol)
    ELSE Part002RemovePosition(pf, symbol)

-----------------------------------------------------------------------------
(* Quote client *)

\* What the quote endpoint can answer for one request:
\*   error : the request fails (network error, non-2xx status)
\*   empty : no data (index: no items; part002: an empty body)
\*   short : a payload without the positional fields
\*   quote : a well-formed payload with close and percent change
RespError == [kind |-> "error", close |-> Undef, changePercent |-> Undef]
RespEmpty == [kind |-> "empty", close |-> Undef, changePercent |-> Undef]
RespShort == [kind |-> "short", close |-> Undef, changePercent |-> Undef]
RespQuote(c, pct) == [kind |-> "quote", close |-> Int2Num(c), changePercent |-> Int2Num(pct)]

\* getStockData returns <<quote>> or <<>> (null).
\* index.js: a short item array is truthy and destructures to undefined fields.
IndexGetStockData(resp) ==
    CASE resp.kind = "quote" -> <<[close |-> resp.close, changePercent |-> resp.changePercent]>>
      [] resp.kind = "short" -> <<[close |-> Undef, changePercent |-> Undef]>>
      [] OTHER               -> <<>>

\* part_002: every field is parseFloat(data[i]); a missing field parses to NaN.
Part002GetStockData(resp) ==
    CASE resp.kind = "quote" -> <<[close |-> resp.close, changePercent |-> resp.changePercent]>>
      [] resp.kind = "short" -> <<[close |-> NaN, changePercent |-> NaN]>>
      [] OTHER               -> <<>>

getStockData(resp) ==
    IF version = "index" THEN IndexGetStockData(resp) ELSE Part002GetStockData(resp)

-----------------------------------------------------------------------------
(* Valuation *)

\* Number.prototype.toFixed(2): a count of hundredths, rounded half away from
\* zero; NaN and the infinities print as such.
toFixed(x) ==
    IF x.k = "fin"
    THEN [k |-> "fixed",
          c |-> (IF x.n < 0 THEN -1 ELSE 1) * ((200 * Abs(x.n) + x.d) \div (2 * x.d))]
    ELSE [k |-> x.k, c |-> 0]

\* x.toFixed raises a TypeError when x is null or undefined.
hasToFixed(x) == x.k \notin {"null", "undef"}

EmptySummary == [totalValue |-> toFixed(Int2Num(0)), totalCost |-> toFixed(Int2Num(0)),
                 totalProfit |-> toFixed(Int2Num(0)), totalReturn |-> toFixed(NaN)]

CalcStart == [threw |-> FALSE, results |-> <<>>,
              totalValue |-> Int2Num(0), totalCost |-> Int2Num(0)]

\* One iteration of the for loop of calculatePortfolio, given what
\* getStockData returned for the position.
calcStep(acc, position, data) ==
    IF acc.threw \/ data = <<>> THEN acc
    ELSE
      LET currentPrice == data[1].close
          cost      == Mul(position.shares, position.purchasePrice)
          value     == Mul(position.shares, currentPrice)
          profit    == Sub(value, cost)
          returnPct == Mul(Div(profit, cost), Int2Num(100))
      IN  IF ~ (hasToFixed(position.purchasePrice) /\ hasToFixed(currentPrice)
                /\ hasToFixed(data[1].changePercent))
          THEN [acc EXCEPT !.threw = TRUE,
                           !.totalValue = Add(acc.totalValue, value),
                           !.totalCost = Add(acc.totalCost, cost)]
          ELSE [acc EXCEPT
                  !.totalValue = Add(acc.totalValue, value),
                  !.totalCost = Add(acc.totalCost, cost),
                  !.results = Append(acc.results,
                      [symbol |-> position.symbol,
                       name |-> position.name,
                       shares |-> position.shares,
                       purchasePrice |-> toFixed(position.purchasePrice),
                       currentPrice |-> toFixed(currentPrice),
                       todayChange |-> toFixed(data[1].changePercent),
                       value |-> toFixed(value),
                       profit |-> toFixed(profit),
                       return |-> toFixed(returnPct)])]

\* The value calculatePortfolio returns once the loop is over.
calcFinish(acc) ==
    IF acc.threw
    THEN [threw |-> TRUE, positions |-> <<>>, summary |-> EmptySummary]
    ELSE [threw |-> FALSE,
          positions |-> acc.results,
          summary |->
            [totalValue |-> toFixed(acc.totalValue),
             totalCost |-> toFixed(acc.totalCost),
             totalProfit |-> toFixed(Sub(acc.totalValue, acc.totalCost)),
             totalReturn |-> toFixed(Mul(Div(Sub(acc.totalValue, acc.totalCost),
                                             acc.totalCost), Int2Num(100)))]]

RECURSIVE calcLoop(_, _, _, _)
calcLoop(pf, resp, i, acc) ==
    IF i > Len(pf) THEN acc
    ELSE calcLoop(pf, resp, i + 1, calcStep(acc, pf[i], getStockData(resp[i])))

\* calculatePortfolio over the array it started iterating, resp[i] being the
\* endpoint's answer to the request for position i.
calculatePortfolio(pf, resp) == calcFinish(calcLoop(pf, resp, 1, CalcStart))

NoResult == [threw |-> FALSE, positions |-> <<>>, summary |-> EmptySummary]

-----------------------------------------------------------------------------
(* Command surface: one action per command handler *)

AddSymbols == {Str600000, Str600000 \o DotSH, Str600000 \o Dotsh, Str000001}
\* shares, purchase price and name of an `add` command
AddArgs    == {<<Int2Num(100), Int2Num(10), EmptyStr>>,
               <<Int2Num(100), Int2Num(12), NamePF>>,
               <<Int2Num(-100), Int2Num(12), EmptyStr>>}
RemoveInputs == {Str600000, Str600000 \o DotSH, Prefsh \o Str600000, NamePF, Str900001}
Keys       == {"tok"}
Responses  == {RespError, RespEmpty, RespShort, RespQuote(11, 1)}

NoFormat == [applied |-> FALSE, code |-> EmptyStr, suffix |-> EmptyStr,
             in |-> EmptyStr, out |-> EmptyStr, twice |-> EmptyStr]

NoOp == [op |-> "none", symbol |-> EmptyStr, shares |-> Int2Num(0), price |-> Int2Num(0),
         name |-> EmptyStr, before |-> <<>>, beforeFile |-> [exists |-> FALSE, data |-> <<>>],
         threw |-> FALSE, ret |-> <<>>, out |-> {}, resp |-> <<>>, result |-> NoResult]

monIdle == /\ mon = [pc |-> "off", interval |-> 0, nextTick |-> 0, timer |-> FALSE,
                     handler |-> FALSE, exitCode |-> -1, started |-> 0,
                     discarded |-> 0, completed |-> 0, errors |-> 0,
                     t0 |-> 0, firstStart |-> -1, lastStart |-> -1, lastError |-> 0,
                     edit |-> "none", lastEdited |-> FALSE, lastArr |-> <<>>,
                     lastFile |-> <<>>]
           /\ now = 0
           /\ lastUpdateTime = 0
           /\ passes = {}

Init ==
    /\ version \in Versions
    /\ portfolio = <<>>
    /\ portfolioFile \in {[exists |-> FALSE, data |-> <<>>], [exists |-> TRUE, data |-> <<>>]}
    /\ config = [apiKey |-> ""]
    /\ configFile = [exists |-> FALSE, data |-> [apiKey |-> ""]]
    /\ ops = 0
    /\ last = NoOp
    /\ prev = NoOp
    /\ monIdle
    /\ fmtIn = NoFormat

\* setupCLI: every command runs in a fresh process, which first awaits
\* initialize() = loadConfig(); loadPortfolio().
initialize ==
    LET c == loadConfig(configFile)
        l == loadPortfolio(portfolioFile)
    IN  [config |-> c.config, configFile |-> c.file,
         portfolio |-> l.portfolio, portfolioFile |-> l.file]

\* `add` handler: await monitor.addPosition(...); console.log(...)
AddCmd(symbol, shares, price, name) ==
    LET st == initialize
        r  == addPosition(st.portfolio, symbol, shares, price, name)
    IN  /\ ops < MaxOps
        /\ ops' = ops + 1
        /\ portfolio' = r.portfolio
        /\ portfolioFile' = IF r.saved THEN savePortfolio(r.portfolio) ELSE st.portfolioFile
        /\ config' = st.config
        /\ configFile' = st.configFile
        /\ last' = [NoOp EXCEPT !.op = "add", !.symbol = symbol, !.shares = shares,
                                !.price = price, !.name = name, !.before = st.portfolio,
                                !.beforeFile = st.portfolioFile, !.threw = r.threw,
                                !.ret = r.ret,
                                !.out = IF r.threw THEN r.out
                                        ELSE r.out \cup {"Position added successfully"}]
        /\ prev' = last
        /\ UNCHANGED <<version, mon, now, lastUpdateTime, passes, fmtIn>>

\* `remove` handler: await monitor.removePosition(...); console.log(...)
RemoveCmd(symbol) ==
    LET st == initialize
        r  == removePosition(st.portfolio, symbol)
    IN  /\ ops < MaxOps
        /\ ops' = ops + 1
        /\ portfolio' = r.portfolio
        /\ portfolioFile' = IF r.saved THEN savePortfolio(r.portfolio) ELSE st.portfolioFile
        /\ config' = st.config
        /\ configFile' = st.configFile
        /\ last' = [NoOp EXCEPT !.op = "remove", !.symbol = symbol, !.before = st.portfolio,
                                !.beforeFile = st.portfolioFile, !.threw = r.threw,
                                !.out = IF r.threw THEN r.out
                                        ELSE r.out \cup {"Position removed successfully"}]
        /\ prev' = last
        /\ UNCHANGED <<version, mon, now, lastUpdateTime, passes, fmtIn>>

\* `config` handler: monitor.config.apiKey = argv.key; await monitor.saveConfig()
ConfigCmd(key) ==
    LET st == initialize
    IN  /\ ops < MaxOps
        /\ ops' = ops + 1
        /\ config' = [st.config EXCEPT !.apiKey = key]
        /\ configFile' = saveConfig(config')
        /\ portfolio' = st.portfolio
        /\ portfolioFile' = st.portfolioFile
        /\ last' = [NoOp EXCEPT !.op = "config", !.before = st.portfolio,
                                !.beforeFile = st.portfolioFile,
                                !.out = {"API token saved successfully"}]
        /\ prev' = last
        /\ UNCHANGED <<version, mon, now, lastUpdateTime, passes, fmtIn>>

\* `view` handler: displayPortfolio runs one calculatePortfolio.  Every
\* getStockData reloads this.portfolio from the file; the loop keeps
\* iterating the array it started with.
ViewCmd(resp) ==
    LET st == initialize
        r  == calculatePortfolio(st.portfolio, resp)
    IN  /\ last.op = "none"
        /\ ops' = ops + 1
        /\ DOMAIN resp = 1..Len(st.portfolio)
        /\ last' = [NoOp EXCEPT !.op = "view", !.before = st.portfolio,
                                !.beforeFile = st.portfolioFile, !.threw = r.threw,
                                !.resp = resp, !.result = r]
        /\ prev' = last
        /\ portfolio' = IF Len(st.portfolio) > 0
                        THEN loadPortfolio(st.portfolioFile).portfolio
                        ELSE st.portfolio
        /\ portfolioFile' = st.portfolioFile
        /\ config' = st.config
        /\ configFile' = st.configFile
        /\ UNCHANGED <<version, mon, now, lastUpdateTime, passes, fmtIn>>

Next ==
    \/ \E symbol \in AddSymbols, a \in AddArgs : AddCmd(symbol, a[1], a[2], a[3])
    \/ \E symbol \in RemoveInputs : RemoveCmd(symbol)
    \/ \E key \in Keys : ConfigCmd(key)

Spec == Init /\ [][Next]_vars

-----------------------------------------------------------------------------
(* The view command on a portfolio file written by earlier add commands *)

\* The documents that at most k add commands leave in portfolio.json.
RECURSIVE AddedPortfolios(_, _)
AddedPortfolios(v, k) ==
    IF k = 0 THEN {<<>>}
    ELSE LET R == AddedPortfolios(v, k - 1)
         IN  R \cup {JSONstringify(addPositionPortfolio(JSONparse(pf),
                            formatStockCodeOf(v, symbol), a[1], a[2], a[3])) :
                        pf \in R, symbol \in AddSymbols, a \in AddArgs}

ViewInit ==
    /\ version \in Versions
    /\ portfolio = <<>>
    /\ portfolioFile \in {[exists |-> TRUE, data |-> d] : d \in AddedPortfolios(version, MaxAdds)}
    /\ config = [apiKey |-> ""]
    /\ configFile = [exists |-> TRUE, data |-> [apiKey |-> ""]]
    /\ ops = 0
    /\ last = NoOp
    /\ prev = NoOp
    /\ monIdle
    /\ fmtIn = NoFormat

ViewNext == \E resp \in [1..Len(initialize.portfolio) -> Responses] : ViewCmd(resp)

SpecView == ViewInit /\ [][ViewNext]_vars

-----------------------------------------------------------------------------
(* The symbol formatter applied to bare, dotted and prefixed spellings *)

Digits3    == {<<d, e, "0">> : d \in {"6", "0", "3", "9"}, e \in {"0", "1", "8"}}
Suffixes   == {EmptyStr, DotSH, Dotsh, DotSZ, Dotsz}
Prefixes   == {Prefsh, Prefsz}

FormatCall(code, suffix, in) ==
    /\ ~ fmtIn.applied
    /\ fmtIn' = [applied |-> TRUE, code |-> code, suffix |-> suffix, in |-> in,
                 out |-> formatStockCode(in),
                 twice |-> formatStockCode(formatStockCode(in))]
    /\ UNCHANGED <<version, portfolio, portfolioFile, config, configFile, ops, last, prev,
                   mon, now, lastUpdateTime, passes>>

\* formatStockCode on a bare or dotted spelling of a code
FormatSpelling == \E code \in Digits3, suffix \in Suffixes :
                     FormatCall(code, suffix, code \o suffix)

\* formatStockCode on an exchange-prefixed spelling (the form part_002 stores)
FormatPrefixed == \E code \in Digits3, prefix \in Prefixes :
                     FormatCall(code, prefix, prefix \o code)

FmtNext == FormatSpelling \/ FormatPrefixed

SpecFmt == Init /\ [][FmtNext]_vars

-----------------------------------------------------------------------------
(* Monitor mode: startMonitoring, its interval timer and the SIGINT handler *)

Intervals    == {500, 1000, 2000}
MonResponses == {RespError, RespShort, RespQuote(11, 1)}

\* Portfolio files the monitor starts from: none, one or two positions.
MonPortfolios(v) ==
    LET p1 == addPositionPortfolio(<<>>, formatStockCodeOf(v, Str600000),
                                   Int2Num(100), Int2Num(10), EmptyStr)
        p2 == addPositionPortfolio(p1, formatStockCodeOf(v, Str000001),
                                   Int2Num(100), Int2Num(12), NamePF)
    IN  {<<>>, JSONstringify(p1), JSONstringify(p2)}

MonInit ==
    /\ version \in Versions
    /\ portfolioFile \in {[exists |-> TRUE, data |-> d] : d \in MonPortfolios(version)}
    /\ portfolio = JSONparse(portfolioFile.data)
    /\ config = [apiKey |-> "tok"]
    /\ configFile = [exists |-> TRUE, data |-> [apiKey |-> "tok"]]
    /\ ops = 0
    /\ last = NoOp
    /\ prev = NoOp
    /\ monIdle
    /\ fmtIn = NoFormat

\* A guard that also discards a call exactly 1000 ms after the reference.
guardDiscardsAtLimit(t, lastT) == t - lastT <= 1000

\* The spacing guard of updateDisplay: `now - lastUpdateTime < 1000` returns.
guardDiscards(t, lastT) == t - lastT < 1000

\* updateDisplay without its try/catch: an exception of the pass leaves the
\* callback and ends the process.
finishPassUncaught(m, acc) ==
    IF calcFinish(acc).threw
    THEN [m EXCEPT !.pc = "crashed", !.timer = FALSE, !.exitCode = 1]
    ELSE [m EXCEPT !.completed = @ + 1]

\* A pass whose loop is over renders in the same turn of the event loop; an
\* exception is caught and logged by updateDisplay.
finishPass(m, acc) ==
    IF calcFinish(acc).threw
    THEN [m EXCEPT !.completed = @ + 1, !.errors = @ + 1, !.lastError = m.started]
    ELSE [m EXCEPT !.completed = @ + 1]

\* A pass gets past the guard: clear() and calculatePortfolio() begin.  The
\* record keeps when it began, the array its loop iterates, the file's content
\* at that moment and whether the file was edited since the pass before.
beginPass(m) ==
    [m EXCEPT !.started = @ + 1,
              !.lastStart = now,
              !.firstStart = IF @ < 0 THEN now ELSE @,
              !.lastArr = portfolio,
              !.lastFile = portfolioFile.data,
              !.lastEdited = (m.edit = "pending"),
              !.edit = "none"]

\* updateDisplay up to its first suspension: discarded by the guard, or a new
\* valuation pass over the array this.portfolio refers to now.
updateDisplay(m, lastT) ==
    IF guardDiscards(now, lastT)
    THEN [mon |-> [m EXCEPT !.discarded = @ + 1], last |-> lastT, passes |-> passes]
    ELSE IF Len(portfolio) = 0
    THEN [mon |-> finishPass(beginPass(m), CalcStart),
          last |-> now, passes |-> passes]
    ELSE [mon |-> beginPass(m),
          last |-> now,
          passes |-> passes \cup {[id |-> m.started + 1, arr |-> portfolio, idx |-> 1,
                                   stage |-> "load", acc |-> CalcStart]}]

\* startMonitoring(interval): lastUpdateTime = Date.now(); await updateDisplay();
\* setInterval(updateDisplay, interval); process.on("SIGINT", ...)
StartMonitoring(interval) ==
    /\ mon.pc = "off"
    /\ LET u == updateDisplay(mon, now)
       IN  /\ mon' = [u.mon EXCEPT !.pc = "running", !.interval = interval,
                                   !.nextTick = now + interval, !.timer = TRUE,
                                   !.handler = TRUE, !.t0 = now]
           /\ lastUpdateTime' = u.last
           /\ passes' = u.passes
    /\ UNCHANGED <<version, portfolio, portfolioFile, config, configFile, ops, last, prev,
                   now, fmtIn>>

\* The interval timer fires and calls updateDisplay.
TimerTick ==
    /\ mon.pc = "running"
    /\ mon.timer
    /\ now >= mon.nextTick
    /\ mon.started < MaxPasses
    /\ LET u == updateDisplay([mon EXCEPT !.nextTick = @ + mon.interval], lastUpdateTime)
       IN  /\ mon' = u.mon
           /\ lastUpdateTime' = u.last
           /\ passes' = u.passes
    /\ UNCHANGED <<version, portfolio, portfolioFile, config, configFile, ops, last, prev,
                   now, fmtIn>>

\* Outcomes of the file operations of loadPortfolio: the read succeeds; the
\* read fails and the empty portfolio is written; the read and the write fail.
LoadOutcomes == {"ok", "readFail", "writeFail"}

\* getStockData of pass p has returned data (<<>> for null): the loop of
\* calculatePortfolio moves on, and after the last position the pass renders.
afterGetStockData(p, data) ==
    LET acc == calcStep(p.acc, p.arr[p.idx], data)
    IN  IF p.idx < Len(p.arr) /\ ~ acc.threw
        THEN [passes |-> (passes \ {p}) \cup
                            {[p EXCEPT !.idx = @ + 1, !.stage = "load", !.acc = acc]},
              mon |-> mon]
        ELSE [passes |-> passes \ {p}, mon |-> finishPass(mon, acc)]

\* getStockData of pass p: `await this.loadPortfolio()` completes.  A failed
\* read leaves this.portfolio = [] and writes it; when that write fails too,
\* the exception reaches the catch of getStockData, which returns null.
LoadStep(p, io) ==
    /\ mon.pc = "running"
    /\ p.stage = "load"
    /\ IF io = "writeFail"
       THEN LET a == afterGetStockData(p, <<>>)
            IN  /\ portfolio' = <<>>
                /\ portfolioFile' = portfolioFile
                /\ passes' = a.passes
                /\ mon' = a.mon
       ELSE LET l == loadPortfolio(IF io = "ok" THEN portfolioFile
                                   ELSE [exists |-> FALSE, data |-> <<>>])
            IN  /\ portfolio' = l.portfolio
                /\ portfolioFile' = l.file
                /\ passes' = (passes \ {p}) \cup {[p EXCEPT !.stage = "http"]}
                /\ mon' = mon
    /\ UNCHANGED <<version, config, configFile, ops, last, prev, now,
                   lastUpdateTime, fmtIn>>

\* getStockData of pass p: the HTTP request completes with resp.
FetchStep(p, resp) ==
    /\ mon.pc = "running"
    /\ p.stage = "http"
    /\ LET a == afterGetStockData(p, getStockData(resp))
       IN  /\ passes' = a.passes
           /\ mon' = a.mon
    /\ UNCHANGED <<version, portfolio, portfolioFile, config, configFile, ops, last, prev,
                   now, lastUpdateTime, fmtIn>>

\* Another process rewrites portfolio.json with a valid document while no
\* valuation cycle of the monitor is running.
ExternalEdit(doc) ==
    /\ mon.pc = "running"
    /\ passes = {}
    /\ doc # portfolioFile.data
    /\ portfolioFile' = [exists |-> TRUE, data |-> doc]
    /\ mon' = [mon EXCEPT !.edit = "pending"]
    /\ UNCHANGED <<version, portfolio, config, configFile, ops, last, prev, now,
                   lastUpdateTime, passes, fmtIn>>

\* Time passes; a due timer fires before time moves on.
Advance ==
    /\ mon.pc = "running"
    /\ now < MaxTime
    /\ ~ (mon.timer /\ now >= mon.nextTick)
    /\ now' = now + TimeStep
    /\ UNCHANGED <<version, portfolio, portfolioFile, config, configFile, ops, last, prev,
                   mon, lastUpdateTime, passes, fmtIn>>

\* The SIGINT handler: clearInterval; spinner.stop(); process.exit(0).  It
\* runs as soon as the signal is delivered, whatever is awaited.
Sigint ==
    /\ mon.pc = "running"
    /\ mon.handler
    /\ mon' = [mon EXCEPT !.pc = "exited", !.timer = FALSE, !.exitCode = 0]
    /\ UNCHANGED <<version, portfolio, portfolioFile, config, configFile, ops, last, prev,
                   now, lastUpdateTime, passes, fmtIn>>

MonNext ==
    \/ \E interval \in Intervals : StartMonitoring(interval)
    \/ TimerTick
    \/ \E p \in passes, io \in LoadOutcomes : LoadStep(p, io)
    \/ \E p \in passes, resp \in MonResponses : FetchStep(p, resp)
    \/ \E doc \in MonPortfolios(version) : ExternalEdit(doc)
    \/ Advance
    \/ Sigint

SpecMon == MonInit /\ [][MonNext]_vars

-----------------------------------------------------------------------------
(* Properties of the command specification Spec *)

\* Indices of the positions of pf whose symbol is sym.
indicesOf(pf, sym) == {i \in 1..Len(pf) : pf[i].symbol = sym}

\* pf without its i-th entry.
without(pf, i) == SubSeq(pf, 1, i - 1) \o SubSeq(pf, i + 1, Len(pf))

distinctSymbols(pf) ==
    \A i, j \in 1..Len(pf) : pf[i].symbol = pf[j].symbol => i = j

\* C1: two consecutive adds of the same input x, the first on a portfolio
\* without a position for formatStockCode(x), with S1+S2 # 0, leave exactly
\* one position for formatStockCode(x), holding S1+S2 shares at the
\* weighted-average price (S1*P1 + S2*P2)/(S1+S2), and append nothing more.
AddTwiceCase ==
    /\ prev.op = "add"
    /\ last.op = "add"
    /\ prev.symbol = last.symbol
    /\ indicesOf(prev.before, formatStockCode(prev.symbol)) = {}
    /\ Add(prev.shares, last.shares) # Int2Num(0)

AddTwiceMerges ==
    AddTwiceCase =>
        LET sym == formatStockCode(last.symbol)
            idx == indicesOf(portfolio, sym)
        IN  /\ Cardinality(idx) = 1
            /\ Len(portfolio) = Len(prev.before) + 1
            /\ \A i \in idx :
                /\ portfolio[i].shares = Add(prev.shares, last.shares)
                /\ portfolio[i].purchasePrice =
                      Div(Add(Mul(prev.shares, prev.price), Mul(last.shares, last.price)),
                          Add(prev.shares, last.shares))

\* 100 @ 10 then 100 @ 12 has been merged into 200 @ 11.
AddTwiceWitness ==
    /\ AddTwiceCase
    /\ prev.shares = Int2Num(100) /\ prev.price = Int2Num(10)
    /\ last.shares = Int2Num(100) /\ last.price = Int2Num(12)
    /\ \E i \in 1..Len(portfolio) :
          /\ portfolio[i].shares = Int2Num(200)
          /\ portfolio[i].purchasePrice = Int2Num(11)

\* C2: no two entries of the in-memory portfolio, nor of the portfolio
\* written to portfolio.json, have the same symbol.
NoDuplicateSymbols ==
    /\ distinctSymbols(portfolio)
    /\ distinctSymbols(JSONparse(portfolioFile.data))

\* An add has met an existing position in a portfolio of two positions.
NoDuplicateWitness ==
    /\ last.op = "add"
    /\ indicesOf(last.before, formatStockCode(last.symbol)) # {}
    /\ Len(portfolio) = 2
    /\ Len(JSONparse(portfolioFile.data)) = 2

\* C3: removePosition(x), when a position has symbol formatStockCode(x),
\* yields the portfolio without that position: one entry shorter, no
\* position for formatStockCode(x), the others unchanged and in order.
RemovePresentCase ==
    /\ last.op = "remove"
    /\ indicesOf(last.before, formatStockCode(last.symbol)) # {}

RemovePresentRemoves ==
    RemovePresentCase =>
        LET sym == formatStockCode(last.symbol)
        IN  /\ Len(portfolio) = Len(last.before) - 1
            /\ indicesOf(portfolio, sym) = {}
            /\ \A i \in indicesOf(last.before, sym) : portfolio = without(last.before, i)

\* C4: removePosition(x), when no position has symbol formatStockCode(x) or
\* name x, leaves portfolio and file unchanged, reports "not found", and the
\* handler does not print the success confirmation.
RemoveAbsentCase ==
    /\ last.op = "remove"
    /\ indicesOf(last.before, formatStockCode(last.symbol)) = {}
    /\ \A i \in 1..Len(last.before) : last.before[i].name # last.symbol

RemoveAbsentReportsNotFound ==
    RemoveAbsentCase =>
        /\ portfolio = last.before
        /\ portfolioFile = last.beforeFile
        /\ "Position not found" \in last.out
        /\ "Position removed successfully" \notin last.out

\* C6: addPosition completes normally and returns the position now stored
\* for formatStockCode(symbol), whether it created or merged, so the handler
\* prints "Position added successfully".
AddReturnsPosition ==
    last.op = "add" =>
        /\ ~ last.threw
        /\ "Position added successfully" \in last.out
        /\ \E i \in indicesOf(portfolio, formatStockCode(last.symbol)) :
              last.ret = <<portfolio[i]>>

\* C7: after an addPosition or removePosition that changed the in-memory
\* portfolio, portfolio.json decodes to exactly the in-memory portfolio; and
\* config.json decodes to the saved config after the config command.
FileMatchesMemory ==
    /\ (last.op \in {"add", "remove"} /\ portfolio # last.before) =>
          /\ portfolioFile.exists
          /\ JSONparse(portfolioFile.data) = portfolio
    /\ last.op = "config" => loadConfig(configFile).config = config

-----------------------------------------------------------------------------
(* Properties of the view specification SpecView *)

\* The positions whose fetch succeeded, and the k-th of them in portfolio order.
succeeded(resp) == {i \in DOMAIN resp : resp[i].kind = "quote"}

nthOf(S, k) == CHOOSE i \in S : Cardinality({j \in S : j < i}) = k - 1

RECURSIVE sumOver(_, _, _)
sumOver(S, pf, resp) ==
    IF S = {} THEN [cost |-> Int2Num(0), value |-> Int2Num(0)]
    ELSE LET i == CHOOSE m \in S : \A j \in S : j <= m
             r == sumOver(S \ {i}, pf, resp)
         IN  [cost  |-> Add(r.cost, Mul(pf[i].shares, pf[i].purchasePrice)),
              value |-> Add(r.value, Mul(pf[i].shares, resp[i].close))]

\* Every fetch outcome is a quote with a close price or a failure.
ViewCase ==
    /\ last.op = "view"
    /\ \A i \in DOMAIN last.resp : last.resp[i].kind \in {"quote", "error", "empty"}

ViewRowsAndTotals ==
    LET pf   == last.before
        S    == succeeded(last.resp)
        rows == last.result.positions
        sum  == sumOver(S, pf, last.resp)
    IN  /\ ~ last.result.threw
        /\ Len(rows) = Cardinality(S)
        /\ \A k \in 1..Len(rows) :
              LET i == nthOf(S, k)
              IN  /\ rows[k].symbol = pf[i].symbol
                  /\ rows[k].shares = pf[i].shares
                  /\ rows[k].value = toFixed(Mul(pf[i].shares, last.resp[i].close))
        /\ last.result.summary.totalCost = toFixed(sum.cost)
        /\ last.result.summary.totalValue = toFixed(sum.value)
        /\ last.result.summary.totalProfit = toFixed(Sub(sum.value, sum.cost))

\* C5: calculatePortfolio returns one row per position whose fetch succeeded,
\* in portfolio order, none for a failed one; totalCost and totalValue are
\* the sums of shares*purchasePrice and shares*close over the succeeded
\* positions only, and totalProfit is their difference.
ViewTotals == ViewCase => ViewRowsAndTotals

\* The claim for portfolios whose share counts and prices are all numbers.
ViewNumeric ==
    \A i \in 1..Len(last.before) :
        hasToFixed(last.before[i].shares) /\ hasToFixed(last.before[i].purchasePrice)

ViewTotalsNumeric == (ViewCase /\ ViewNumeric) => ViewRowsAndTotals

\* Two positions, the first fetch failed and the second succeeded.
ViewWitness ==
    /\ ViewCase
    /\ ViewNumeric
    /\ Len(last.before) = 2
    /\ last.resp[1].kind = "error"
    /\ last.resp[2].kind = "quote"
    /\ Len(last.result.positions) = 1

\* 100 shares bought at 10 with close 11: cost 1000, value 1100, profit 100, return 10%.
ViewExample ==
    (/\ ViewCase
     /\ Len(last.before) = 1
     /\ last.before[1].shares = Int2Num(100)
     /\ last.before[1].purchasePrice = Int2Num(10)
     /\ last.resp[1] = RespQuote(11, 1))
    => /\ last.result.summary.totalCost = [k |-> "fixed", c |-> 100000]
       /\ last.result.summary.totalValue = [k |-> "fixed", c |-> 110000]
       /\ last.result.summary.totalProfit = [k |-> "fixed", c |-> 10000]
       /\ last.result.summary.totalReturn = [k |-> "fixed", c |-> 1000]
       /\ last.result.positions[1].return = [k |-> "fixed", c |-> 1000]

\* A fetch whose payload is too short for the positional fields the parser reads.
ShortPayloadCase ==
    /\ last.op = "view"
    /\ ViewNumeric
    /\ \E i \in DOMAIN last.resp : last.resp[i].kind = "short"

\* C13: for a malformed or short payload getStockData returns null, never a
\* quote object with missing or non-numeric fields; the position is left out
\* of the rows and the totals, and the valuation pass does not throw.
ShortPayloadIsFailure ==
    ShortPayloadCase =>
        /\ \A i \in DOMAIN last.resp :
              last.resp[i].kind = "short" => getStockData(last.resp[i]) = <<>>
        /\ ~ last.result.threw
        /\ Len(last.result.positions) = Cardinality(succeeded(last.resp))

-----------------------------------------------------------------------------
(* Removal by display name, specification Spec *)

\* removePosition(n) in the version of part_002 where n is the display name of
\* exactly one position and the symbol of none.
RemoveByNameCase ==
    /\ version = "part002"
    /\ last.op = "remove"
    /\ Cardinality({i \in 1..Len(last.before) : last.before[i].name = last.symbol}) = 1
    /\ \A i \in 1..Len(last.before) : last.before[i].symbol # last.symbol

\* C14: removePosition(n) by display name removes that position: the
\* portfolio is one entry shorter, holds no position named n, and the
\* shortened portfolio has been persisted.
RemoveByNameRemoves ==
    RemoveByNameCase =>
        /\ Len(portfolio) = Len(last.before) - 1
        /\ \A i \in 1..Len(portfolio) : portfolio[i].name # last.symbol
        /\ portfolioFile = savePortfolio(portfolio)

-----------------------------------------------------------------------------
(* Properties of the formatter specification SpecFmt *)

\* The dotted spellings of a code with its own exchange, in either case.
ownSuffixes(code) ==
    IF startsWith(code, "6") THEN {EmptyStr, DotSH, Dotsh}
    ELSE IF startsWith(code, "0") \/ startsWith(code, "3") THEN {EmptyStr, DotSZ, Dotsz}
    ELSE {}

\* C8: every spelling of a code beginning with 6, 0 or 3 (bare, or dotted with
\* its exchange in either case) formats to the output of the bare code, and
\* every output is a fixed point of formatStockCode.
FormatCanonical ==
    fmtIn.applied =>
        /\ fmtIn.twice = fmtIn.out
        /\ fmtIn.suffix \in ownSuffixes(fmtIn.code) => fmtIn.out = formatStockCode(fmtIn.code)

\* The fixed-point half of C8 alone.
FormatIdempotent == fmtIn.applied => fmtIn.twice = fmtIn.out

-----------------------------------------------------------------------------
(* Properties of the monitor specification SpecMon *)

\* C9: at most one valuation pass is in progress at any time, hence at most
\* one quote request is in flight.
AtMostOnePass ==
    /\ Cardinality(passes) <= 1
    /\ Cardinality({p \in passes : p.stage = "http"}) <= 1

\* C10: SIGINT never terminates the process while a valuation cycle is in
\* flight: at exit no pass is awaiting a file read or a quote.
ExitOnlyBetweenCycles == mon.pc = "exited" => passes = {}

\* C11: the valuation cycle that follows an external edit of portfolio.json
\* made between two cycles values the edited portfolio: the array its loop
\* iterates is what the file held when the cycle began.
EditedFileIsValued ==
    mon.lastEdited => mon.lastArr = JSONparse(mon.lastFile)

\* An updateDisplay call made by the interval timer.
timerCalls == mon.pc = "running" /\ mon'.nextTick # mon.nextTick

\* The process is off, running with its timer armed, or ended by SIGINT.
LoopAlive ==
    /\ mon.pc \in {"off", "running", "exited"}
    /\ mon.pc = "running" => mon.timer
    /\ mon.pc = "exited" => mon.exitCode = 0

\* After a caught error a timer call that passes the guard starts a pass.
PassAfterError ==
    (timerCalls /\ mon.errors > 0 /\ ~ guardDiscards(now, lastUpdateTime))
        => /\ mon'.started = mon.started + 1
           /\ mon'.lastArr = portfolio

guardReference == IF mon.lastStart >= 0 THEN mon.lastStart ELSE mon.t0

\* The direct call of startMonitoring returns at the guard.
FirstCallDiscarded ==
    (mon.pc = "off" /\ mon'.pc = "running")
        => /\ mon'.started = 0
           /\ mon'.discarded = 1
           /\ passes' = {}
           /\ lastUpdateTime' = now

\* A timer call is discarded exactly when less than 1000 ms have passed since
\* guardReference; otherwise it starts a pass.
TickDiscardedExactly ==
    timerCalls
        => IF now - guardReference < 1000
           THEN /\ mon'.discarded = mon.discarded + 1
                /\ mon'.started = mon.started
                /\ passes' = passes
           ELSE /\ mon'.discarded = mon.discarded
                /\ mon'.started = mon.started + 1
                /\ mon'.lastStart = now

FirstPassNotBefore == mon.firstStart >= 0 => mon.firstStart - mon.t0 >= 1000

\* C15: the first, direct call of updateDisplay returns at the spacing guard;
\* the first pass of a session starts at a timer call at least 1000 ms after
\* startMonitoring began; a timer call is discarded exactly when less than
\* 1000 ms have passed since the start of the last pass that was not discarded.
SpacingGuardFromStart ==
    [](FirstPassNotBefore) /\ [][FirstCallDiscarded /\ TickDiscardedExactly]_vars

\* Calls were discarded before the first pass and between passes, and a call
\* was let through while the pass before it had not completed.
SpacingGuardWitness ==
    /\ mon.discarded >= 3
    /\ mon.firstStart = mon.t0 + 1000
    /\ Cardinality(passes) = 2

====
